---- MODULE Spec2Model ----
(***************************************************************************)
(* PS3_FW_Downloader.py: download_with_retries and download_firmwares.     *)
(* The catalog is the parsed document (spans and tables), the storage is a *)
(* set of directories and a map of files, the network answers each         *)
(* requests.get with an exception or a response.                           *)
(***************************************************************************)
EXTENDS Integers, Sequences, FiniteSets, TLC

\* ---------------------------------------------------------------- bounds
MaxRows == 2          \* data rows in the whole catalog
MaxChunks == 2        \* chunks iter_content yields for one body
MaxRetries == 3       \* largest `retries` argument tried on its own

\* ------------------------------------------------------ program constants
DefaultRetries == 3
DefaultDelay == 5
RateLimitDelay == 10
block_size == 1024

sectionsSwapped == <<"Testkit Firmwares", "Retail Firmwares", "PS3 GEX FW", "DECR Firmware">>
sections == <<"Retail Firmwares", "Testkit Firmwares", "PS3 GEX FW", "DECR Firmware">>

\* the versions of a table's data rows, by their place in the table
Versions == <<"4.90", "4.91", "4.92", "4.93">>
NoAttr == <<>>
Unbound == <<>>

\* ------------------------------------------------------------ the catalog
\* A <tr>: number of <td> cells, the texts of cells 1 and 2, the data-url of
\* the button in cell 3 and the data-copy of the link in cell 4.
HeaderRow == [td |-> 0, version |-> "", size |-> "", data_url |-> NoAttr, data_copy |-> NoAttr]
GoodRow(v) == [td |-> 5, version |-> v, size |-> "200MB", data_url |-> <<"url", v>>, data_copy |-> <<"md5", v>>]
ShortRow(v) == [td |-> 3, version |-> v, size |-> "200MB", data_url |-> NoAttr, data_copy |-> NoAttr]
NoButtonRow(v) == [td |-> 5, version |-> v, size |-> "200MB", data_url |-> NoAttr, data_copy |-> <<"md5", v>>]
RowKinds == {"good", "short", "nobutton"}
MakeRow(kind, v) == IF kind = "good" THEN GoodRow(v) ELSE IF kind = "short" THEN ShortRow(v) ELSE NoButtonRow(v)

Span(label) == [tag |-> "span", string |-> label, tr |-> <<>>]
Table(trs) == [tag |-> "table", string |-> "", tr |-> trs]

\* lines 104-107: the first exception the four extractions raise, if any
RowErrorOnlyShort(tr) == IF tr.td < 5 THEN "IndexError" ELSE "none"
RowError(tr) ==
    IF tr.td < 4 THEN "IndexError"
    ELSE IF tr.data_url = NoAttr THEN "TypeError"
    ELSE IF tr.td < 5 THEN "IndexError"
    ELSE IF tr.data_copy = NoAttr THEN "TypeError"
    ELSE "none"

\* soup.find('span', string=section): index of the first such span, 0 for None
FindSpan(doc, label) ==
    LET hits == {i \in 1..Len(doc) : doc[i].tag = "span" /\ doc[i].string = label}
    IN IF hits = {} THEN 0 ELSE CHOOSE i \in hits : \A j \in hits : i <= j

\* .find_next('table'): index of the first table after position i, 0 for None
FindNextTable(doc, i) ==
    LET hits == {k \in (i+1)..Len(doc) : doc[k].tag = "table"}
    IN IF hits = {} THEN 0 ELSE CHOOSE k \in hits : \A j \in hits : k <= j

\* table.find_all('tr')[1:]
DataRowsWithHeader(trs) == trs
DataRows(trs) == IF Len(trs) = 0 THEN <<>> ELSE Tail(trs)

\* ------------------------------------------------------------- the network
Absent == -1
BodyOf(n) == [i \in 1..n |-> IF i < n THEN block_size ELSE 1]
Bodies == {BodyOf(n) : n \in 0..MaxChunks}

RECURSIVE SumSeq(_)
SumSeq(s) == IF s = <<>> THEN 0 ELSE Head(s) + SumSeq(Tail(s))

None == [raised |-> FALSE, status |-> 0, content_length |-> Absent, body |-> <<>>, breaks |-> FALSE]
ConnectionError == [raised |-> TRUE, status |-> 0, content_length |-> Absent, body |-> <<>>, breaks |-> FALSE]
HttpError == [raised |-> FALSE, status |-> 404, content_length |-> Absent, body |-> <<>>, breaks |-> FALSE]
\* a stream that breaks does so after the chunks of `body`
Responses ==
    {[raised |-> FALSE, status |-> 200, content_length |-> cl, body |-> b, breaks |-> FALSE] :
        cl \in {0, 1}, b \in Bodies}
    \cup {[raised |-> FALSE, status |-> 200, content_length |-> 1, body |-> b, breaks |-> TRUE] :
        b \in Bodies}
\* the answer to one requests.get: content_length 1 stands for "header present"
\* and is replaced by the body's length
Declare(r) == IF r.content_length = 1 THEN [r EXCEPT !.content_length = SumSeq(r.body)]
              ELSE [r EXCEPT !.content_length = Absent]
Answers == {ConnectionError, HttpError} \cup {Declare(r) : r \in Responses}

\* response.raise_for_status()
RaisesForStatus(r) == 400 <= r.status /\ r.status < 600
\* the except branch of download_with_retries is taken
AttemptFailsOnlyOnRaise(r) == r.raised
AttemptFails(r) == r.raised \/ RaisesForStatus(r)
\* `if response:` Response.__bool__ is Response.ok
TruthyForNone(r) == ~RaisesForStatus(r)
Truthy(r) == r # None /\ ~RaisesForStatus(r)
\* int(response.headers.get('content-length', 0))
TotalSize(r) == IF r.content_length = Absent THEN 0 ELSE r.content_length


\* ------------------------------------------------------------- the storage
SectionDir(section) == <<section>>
FirmwareDir(section, version) == <<section, version>>
PayloadName == "PS3UPDAT.PUP"
FilePath(dir, name) == [dir |-> dir, name |-> name]

\* os.makedirs(path, exist_ok=True)
MakeDirsExclusive(d, path) == [raised |-> path \in d, dirs |-> d \cup {path}]
MakeDirs(d, path) == [raised |-> FALSE, dirs |-> d \cup {path}]

\* file contents are sequences of blocks, each block the length of one write
Block(origin, n) == [origin |-> origin, len |-> n]
\* open(path, 'wb')
OpenAppending(fs, path) == [q \in DOMAIN fs \cup {path} |-> IF q \in DOMAIN fs THEN fs[q] ELSE <<>>]
OpenWB(fs, path) == [q \in DOMAIN fs \cup {path} |-> IF q = path THEN <<>> ELSE fs[q]]
\* firmware_file.write(data)
WriteData(fs, path, n) == [fs EXCEPT ![path] = Append(@, Block("rx", n))]
RECURSIVE FileSize(_)
FileSize(content) == IF content = <<>> THEN 0 ELSE Head(content).len + FileSize(Tail(content))

EmptyFiles == [q \in {} |-> <<>>]
\* what an earlier, interrupted or complete, run over the catalog left behind
\* for its Retail entry 4.90
StaleDirs == {SectionDir(sections[1]), FirmwareDir(sections[1], "4.90")}
StaleFiles == [q \in {FilePath(FirmwareDir(sections[1], "4.90"), PayloadName)} |->
                 <<Block("old", block_size), Block("old", block_size), Block("old", block_size), Block("old", 7)>>]

\* ------------------------------------------------------------ the records
SuccessEntry(section, tr) ==
    [version |-> tr.version, section |-> section, status |-> "success", url |-> tr.data_url,
     size |-> tr.size, md5 |-> tr.data_copy, time_taken |-> "seconds", average_speed |-> "MB/s"]
FailedEntry(section, tr) ==
    [version |-> tr.version, section |-> section, status |-> "failed", url |-> tr.data_url,
     size |-> tr.size, md5 |-> tr.data_copy, time_taken |-> "N/A", average_speed |-> "N/A"]

\* one <tr> of the report, lines 176-178
RenderRow(e) ==
    [color |-> IF e.status = "success" THEN "green" ELSE "red",
     cells |-> <<e.section, e.version, e.status, e.url, e.size, e.md5, e.time_taken, e.average_speed>>]
\* the log file, lines 166-180
Render(total, ok, bad, entries) ==
    [written |-> TRUE, total_files |-> total, success_count |-> ok, failure_count |-> bad,
     table |-> [i \in 1..Len(entries) |-> RenderRow(entries[i])]]
NoReport == [written |-> FALSE, total_files |-> 0, success_count |-> 0, failure_count |-> 0, table |-> <<>>]

\* log_entries.append(entry), lines 133 and 147
AppendEntryTwice(log, e) == Append(Append(log, e), e)
AppendEntryDropsFailed(log, e) == IF e.status = "failed" THEN log ELSE Append(log, e)
AppendEntry(log, e) == Append(log, e)

\* the sleep between attempts is taken: line 69
RetryAgainNever(k, n) == FALSE
RetryAgainAfterLast(k, n) == k < n
RetryAgain(k, n) == k < n - 1
\* time.sleep(secs), as a list of the pauses since the last request
Sleep(slept, secs) == Append(slept, secs)
\* line 161
RateLimitSkipped(slept) == slept
RateLimit(slept) == Sleep(slept, RateLimitDelay)

VARIABLES
    catalog,        \* soup: the document, a sequence of spans and tables
    dirs, files,    \* the storage under base_dir
    report,         \* the log file
    pc, err,        \* position in the script; the exception that ended it
    sec, rows, rowIdx,                                      \* the two loops
    total_files, success_count, failure_count, log_entries, \* lines 86-90
    url, retries, attempt, response,                        \* download_with_retries
    total_size, wrote, pending, percent,                    \* lines 116-125
    tries, failed, sleeps,  \* requests, failed requests and sleeps of the current call
    requested,      \* whether the current run has sent any request
    pauses,         \* the sleeps since the last request
    run, net, prev  \* the run's number, the answers of run 1 by entry, the previous report

store == <<dirs, files>>
loops == <<sec, rows, rowIdx>>
counts == <<total_files, success_count, failure_count, log_entries>>
call == <<url, retries, attempt, response>>
body == <<total_size, wrote, pending, percent>>
ghost == <<tries, failed, sleeps, requested, pauses>>
runs == <<run, net, prev>>
vars == <<catalog, store, report, pc, err, loops, counts, call, body, ghost, runs>>

\* ---------------------------------------------------------- initial states
\* the data rows of the whole catalog, as (section index, kind of row),
\* section-major; versions are unique within a table
Layouts ==
    UNION {{f \in [1..n -> (1..Len(sections)) \X RowKinds] :
              \A i \in 1..(n-1) : f[i][1] <= f[i+1][1]} : n \in 0..MaxRows}
TableOf(layout, s) ==
    LET idx == SelectSeq([i \in 1..Len(layout) |-> i], LAMBDA i : layout[i][1] = s)
    IN <<HeaderRow>> \o [k \in 1..Len(idx) |-> MakeRow(layout[idx[k]][2], Versions[k])]
\* one section of the document; a defect drops its span or its table
Block4(layout, s, defect) ==
    (IF defect = <<s, "nospan">> THEN <<>> ELSE <<Span(sections[s])>>)
    \o (IF defect = <<s, "notable">> THEN <<>> ELSE <<Table(TableOf(layout, s))>>)
\* a missing table is tried for the first section, where find_next reaches
\* the next section's table, and for the last, where it reaches none
Defects == ((1..Len(sections)) \X {"nospan"}) \cup ({1, Len(sections)} \X {"notable"})
DeclaredOrder == <<1, 2, 3, 4>>
ReversedOrder == <<4, 3, 2, 1>>
Document(layout, defect, order) ==
    Block4(layout, order[1], defect) \o Block4(layout, order[2], defect)
    \o Block4(layout, order[3], defect) \o Block4(layout, order[4], defect)
NoDefect == <<0, "none">>
ValidCatalogs == {Document(l, NoDefect, o) : l \in Layouts, o \in {DeclaredOrder, ReversedOrder}}
Catalogs == ValidCatalogs \cup {Document(l, d, DeclaredOrder) : l \in Layouts, d \in Defects}

\* the first table of the document after the Retail span lists version 4.90
HasStaleEntry(doc) ==
    \E i \in 1..Len(doc) : \E k \in 1..Len(doc[i].tr) :
        /\ i > 1 /\ doc[i-1] = Span(sections[1])
        /\ doc[i].tr[k] = GoodRow("4.90")

InitLocals ==
    /\ report = NoReport
    /\ err = "none"
    /\ sec = 1 /\ rows = <<>> /\ rowIdx = 1
    /\ total_files = 0 /\ success_count = 0 /\ failure_count = 0 /\ log_entries = <<>>
    /\ attempt = 0 /\ response = None
    /\ total_size = 0 /\ wrote = 0 /\ pending = <<>> /\ percent = Unbound
    /\ tries = 0 /\ failed = 0 /\ sleeps = 0 /\ requested = FALSE /\ pauses = <<>>

Init ==
    /\ catalog \in Catalogs
    /\ \/ dirs = {} /\ files = EmptyFiles
       \/ dirs = StaleDirs /\ files = StaleFiles /\ HasStaleEntry(catalog)
    /\ InitLocals
    /\ url = NoAttr /\ retries = DefaultRetries
    /\ pc = "section"
    /\ run = 0 /\ net = <<>> /\ prev = NoReport


\* ---------------------------------------------------------------- actions
Raise(e) == pc' = "error" /\ err' = e

Section == sections[sec]
Row == rows[rowIdx]
firmware_path == FilePath(FirmwareDir(Section, Row.version), PayloadName)

\* lines 92-100: the head of the section loop
NextSection ==
    /\ pc = "section"
    /\ IF sec > Len(sections)
       THEN /\ pc' = "report"
            /\ UNCHANGED <<err, store, loops, total_files>>
       ELSE \E ok \in BOOLEAN :
            LET made == MakeDirs(dirs, SectionDir(Section))
                span == FindSpan(catalog, Section)
                table == IF span = 0 THEN 0 ELSE FindNextTable(catalog, span)
            IN IF ~ok \/ made.raised
               THEN /\ Raise(IF ok THEN "FileExistsError" ELSE "OSError")
                    /\ UNCHANGED <<store, loops, total_files>>
               ELSE /\ dirs' = made.dirs
                    /\ UNCHANGED <<files, sec>>
                    /\ IF span = 0 \/ table = 0
                       THEN /\ Raise("AttributeError")
                            /\ UNCHANGED <<rows, rowIdx, total_files>>
                       ELSE /\ rows' = DataRows(catalog[table].tr)
                            /\ total_files' = total_files + Len(rows')
                            /\ rowIdx' = 1
                            /\ pc' = "row"
                            /\ err' = err
    /\ UNCHANGED <<catalog, report, success_count, failure_count, log_entries, call, body, ghost, runs>>

\* lines 102-113: the head of the row loop, up to the call of download_with_retries
NextRow ==
    /\ pc = "row"
    /\ IF rowIdx > Len(rows)
       THEN /\ sec' = sec + 1
            /\ pc' = "section"
            /\ UNCHANGED <<err, store, rows, rowIdx, call, tries, failed, sleeps>>
       ELSE \E ok \in BOOLEAN :
            LET made == MakeDirs(dirs, FirmwareDir(Section, Row.version))
            IN IF RowError(Row) # "none"
               THEN /\ Raise(RowError(Row))
                    /\ UNCHANGED <<store, loops, call, tries, failed, sleeps>>
               ELSE IF ~ok \/ made.raised
               THEN /\ Raise(IF ok THEN "FileExistsError" ELSE "OSError")
                    /\ UNCHANGED <<store, loops, call, tries, failed, sleeps>>
               ELSE /\ dirs' = made.dirs
                    /\ url' = Row.data_url
                    /\ retries' = DefaultRetries
                    /\ attempt' = 0
                    /\ response' = None
                    /\ tries' = 0
                    /\ failed' = 0
                    /\ sleeps' = 0
                    /\ pc' = "attempt"
                    /\ UNCHANGED <<err, files, loops>>
    /\ UNCHANGED <<catalog, report, counts, body, requested, pauses, runs>>

\* the answers the network may give to the next request: any in the first
\* run, the recorded ones in a repeated run
Recorded(answer) == IF AttemptFails(answer) THEN ConnectionError ELSE answer
Entry == Len(log_entries) + 1
Offered ==
    IF run > 1 /\ Entry <= Len(net) /\ tries < Len(net[Entry])
    THEN {net[Entry][tries + 1]}
    ELSE Answers
Record(log, e, answer) ==
    IF e > Len(log) THEN Append(log, <<Recorded(answer)>>)
    ELSE [log EXCEPT ![e] = Append(@, Recorded(answer))]

\* lines 62-74: one iteration of the retry loop
Attempt ==
    /\ pc = "attempt"
    /\ IF attempt >= retries
       THEN /\ response' = None
            /\ pc' = "returned"
            /\ UNCHANGED <<attempt, ghost, net>>
       ELSE \E answer \in Offered :
            /\ tries' = tries + 1
            /\ failed' = IF AttemptFails(answer) THEN failed + 1 ELSE failed
            /\ requested' = TRUE
            /\ pauses' = <<>>
            /\ net' = IF run = 1 THEN Record(net, Entry, answer) ELSE net
            /\ UNCHANGED <<attempt, sleeps>>
            /\ IF AttemptFails(answer)
               THEN IF RetryAgain(attempt, retries)
                    THEN pc' = "sleep" /\ response' = response
                    ELSE pc' = "returned" /\ response' = None
               ELSE pc' = "returned" /\ response' = answer
    /\ UNCHANGED <<catalog, store, report, err, loops, counts, url, retries, body, run, prev>>

\* lines 70-71, and the loop's next value of attempt
Backoff ==
    /\ pc = "sleep"
    /\ pauses' = Sleep(pauses, DefaultDelay)
    /\ sleeps' = sleeps + 1
    /\ attempt' = attempt + 1
    /\ pc' = "attempt"
    /\ UNCHANGED <<catalog, store, report, err, loops, counts, url, retries, response, body,
                   tries, failed, requested, runs>>

\* lines 114-119 and 145-158: the branch on the returned response
Branch ==
    /\ pc = "returned"
    /\ IF Truthy(response)
       THEN \E ok \in BOOLEAN :
            IF ok
            THEN /\ files' = OpenWB(files, firmware_path)
                 /\ total_size' = TotalSize(response)
                 /\ wrote' = 0
                 /\ pending' = response.body
                 /\ pc' = "stream"
                 /\ UNCHANGED <<err, counts, percent>>
            ELSE /\ Raise("OSError")
                 /\ total_size' = TotalSize(response)
                 /\ UNCHANGED <<files, counts, wrote, pending, percent>>
       ELSE /\ log_entries' = AppendEntry(log_entries, FailedEntry(Section, Row))
            /\ failure_count' = failure_count + 1
            /\ pc' = "delay"
            /\ UNCHANGED <<err, files, total_files, success_count, body>>
    /\ UNCHANGED <<catalog, dirs, report, loops, call, ghost, runs>>

\* lines 120-125: one chunk of response.iter_content
Chunk ==
    /\ pc = "stream"
    /\ pending # <<>>
    /\ wrote' = wrote + Head(pending)
    /\ \E ok \in BOOLEAN :
       IF ~ok
       THEN Raise("OSError") /\ UNCHANGED <<files, pending, percent>>
       ELSE /\ files' = WriteData(files, firmware_path, Head(pending))
            /\ IF total_size = 0
               THEN Raise("ZeroDivisionError") /\ UNCHANGED <<pending, percent>>
               ELSE /\ percent' = <<wrote', total_size>>
                    /\ pending' = Tail(pending)
                    /\ UNCHANGED <<pc, err>>
    /\ UNCHANGED <<catalog, dirs, report, loops, counts, call, total_size, ghost, runs>>

\* lines 120 and 127-144: the end of the stream
Finish ==
    /\ pc = "stream"
    /\ pending = <<>>
    /\ IF response.breaks
       THEN Raise("ChunkedEncodingError") /\ UNCHANGED counts
       ELSE /\ log_entries' = AppendEntry(log_entries, SuccessEntry(Section, Row))
            /\ UNCHANGED <<total_files, failure_count>>
            /\ IF percent = Unbound
               THEN Raise("UnboundLocalError") /\ UNCHANGED success_count
               ELSE /\ success_count' = success_count + 1
                    /\ pc' = "delay"
                    /\ err' = err
    /\ UNCHANGED <<catalog, store, report, loops, call, body, ghost, runs>>

\* line 161, and the loop's next row
Delay ==
    /\ pc = "delay"
    /\ pauses' = RateLimit(pauses)
    /\ rowIdx' = rowIdx + 1
    /\ pc' = "row"
    /\ UNCHANGED <<catalog, store, report, err, sec, rows, counts, call, body,
                   tries, failed, sleeps, requested, runs>>

\* lines 163-182: the report
WriteReport ==
    /\ pc = "report"
    /\ \E ok \in BOOLEAN :
       IF ok
       THEN /\ report' = Render(total_files, success_count, failure_count, log_entries)
            /\ pc' = "done"
            /\ err' = err
       ELSE Raise("OSError") /\ UNCHANGED report
    /\ UNCHANGED <<catalog, store, loops, counts, call, body, ghost, runs>>

Next ==
    \/ NextSection
    \/ NextRow
    \/ Attempt
    \/ Backoff
    \/ Branch
    \/ Chunk
    \/ Finish
    \/ Delay
    \/ WriteReport

Spec == Init /\ [][Next]_vars

\* download_with_retries called on its own, with any number of retries
InitRetry ==
    /\ catalog = <<>>
    /\ dirs = {} /\ files = EmptyFiles
    /\ InitLocals
    /\ url \in {GoodRow(Versions[k]).data_url : k \in 1..Len(Versions)}
    /\ retries \in 0..MaxRetries
    /\ pc = "attempt"
    /\ run = 0 /\ net = <<>> /\ prev = NoReport
NextRetry == Attempt \/ Backoff
SpecRetry == InitRetry /\ [][NextRetry]_vars

\* the script run a second time over the storage the first run left, the
\* network answering each request as it did in the first run
InitRerun ==
    /\ catalog \in {Document(l, NoDefect, DeclaredOrder) : l \in Layouts}
    /\ \/ dirs = {} /\ files = EmptyFiles
       \/ dirs = StaleDirs /\ files = StaleFiles /\ HasStaleEntry(catalog)
    /\ InitLocals
    /\ url = NoAttr /\ retries = DefaultRetries
    /\ pc = "section"
    /\ run = 1 /\ net = <<>> /\ prev = NoReport
Rerun ==
    /\ pc = "done"
    /\ run = 1
    /\ run' = run + 1
    /\ prev' = report
    /\ pc' = "section"
    /\ sec' = 1 /\ rows' = <<>> /\ rowIdx' = 1
    /\ total_files' = 0 /\ success_count' = 0 /\ failure_count' = 0 /\ log_entries' = <<>>
    /\ url' = NoAttr /\ attempt' = 0 /\ response' = None /\ retries' = DefaultRetries
    /\ total_size' = 0 /\ wrote' = 0 /\ pending' = <<>> /\ percent' = Unbound
    /\ tries' = 0 /\ failed' = 0 /\ sleeps' = 0 /\ requested' = FALSE /\ pauses' = <<>>
    /\ UNCHANGED <<catalog, store, report, err, net>>
NextRerun == Next \/ Rerun
SpecRerun == InitRerun /\ [][NextRerun]_vars


\* ------------------------------------------------------------- properties
\* The catalog as the four-section schema reads it, stated on the document
\* alone: for each label in the declared order, the rows after the header of
\* the table that directly follows the label's span.
Labels == <<"Retail Firmwares", "Testkit Firmwares", "PS3 GEX FW", "DECR Firmware">>
SpanAt(doc, label) == CHOOSE i \in 1..Len(doc) : doc[i] = Span(label)
HasSection(doc, label) ==
    /\ Cardinality({i \in 1..Len(doc) : doc[i] = Span(label)}) = 1
    /\ SpanAt(doc, label) < Len(doc)
    /\ doc[SpanAt(doc, label) + 1].tag = "table"
    /\ Len(doc[SpanAt(doc, label) + 1].tr) >= 1
    /\ doc[SpanAt(doc, label) + 1].tr[1] = HeaderRow
SectionRows(doc, label) == Tail(doc[SpanAt(doc, label) + 1].tr)
WellFormedRow(tr) == tr.td >= 5 /\ tr.data_url # NoAttr /\ tr.data_copy # NoAttr
Valid(doc) ==
    /\ \A s \in 1..4 : HasSection(doc, Labels[s])
    /\ \A s \in 1..4 : \A k \in 1..Len(SectionRows(doc, Labels[s])) :
          WellFormedRow(SectionRows(doc, Labels[s])[k])
Tagged(doc, label) ==
    [k \in 1..Len(SectionRows(doc, label)) |-> <<label, SectionRows(doc, label)[k]>>]
Entries(doc) ==
    Tagged(doc, Labels[1]) \o Tagged(doc, Labels[2]) \o Tagged(doc, Labels[3]) \o Tagged(doc, Labels[4])
\* both computed once, over the catalogs tried
WellFormed == {doc \in Catalogs : Valid(doc)}
EntriesOf == [doc \in WellFormed |-> Entries(doc)]
CatalogValid == catalog \in WellFormed
CatalogEntries == EntriesOf[catalog]

\* the place of the row being processed among the rows read so far
CurrentIndex == total_files - Len(rows) + rowIdx

\* C1: with retries >= 1 and every request failing, download_with_retries
\* returns None after exactly `retries` requests and `retries - 1` sleeps.
C1_ExhaustedRetries ==
    (pc = "returned" /\ retries >= 1 /\ failed = tries) =>
        (tries = retries /\ sleeps = retries - 1 /\ response = None)
C1_Witness == pc = "returned" /\ retries >= 2 /\ failed = tries /\ tries = retries

\* C2: once a request has succeeded (and neither the stream nor the storage
\* fails), the entry is recorded as a success and the payload file holds as
\* many bytes as the body: the run never stops on that entry unrecorded.
C2_SuccessRecorded ==
    /\ (pc = "delay" /\ Truthy(response)) =>
          /\ Len(log_entries) = CurrentIndex
          /\ log_entries[CurrentIndex].status = "success"
          /\ FileSize(files[firmware_path]) = SumSeq(response.body)
    /\ (pc = "error" /\ Truthy(response) /\ ~response.breaks /\ err # "OSError") =>
          /\ Len(log_entries) = CurrentIndex
          /\ log_entries[CurrentIndex].status = "success"

\* C3: an entry whose retries are exhausted gets exactly one failed outcome
\* and the run goes on; a finished run over a valid catalog reports one
\* outcome per data row, in whatever mix of successes and failures.
C3_OneOutcomePerRow ==
    /\ (pc = "delay" /\ response = None) =>
          /\ err = "none"
          /\ Len(log_entries) = CurrentIndex
          /\ log_entries[CurrentIndex] = FailedEntry(Section, Row)
    /\ (pc = "done" /\ CatalogValid) =>
          /\ Len(report.table) = Len(CatalogEntries)
          /\ \A i \in 1..Len(CatalogEntries) :
                /\ report.table[i].cells[1] = CatalogEntries[i][1]
                /\ report.table[i].cells[2] = CatalogEntries[i][2].version
                /\ report.table[i].cells[3] \in {"success", "failed"}
C3_Witness ==
    /\ pc = "done" /\ CatalogValid /\ Len(report.table) = 2
    /\ report.table[1].cells[3] = "failed"
    /\ report.table[2].cells[3] = "success"


\* C4: no request is sent for any entry of a catalog that has a structural
\* error anywhere (a missing label or table, a row without a required
\* column or attribute).
C4_NoFetchOnInvalidCatalog == ~CatalogValid => ~requested

\* C5: once an entry has been processed with a success (the delay after it
\* is due, or the run is finished), its directory holds the payload file and,
\* next to it, a second file holding the entry's checksum string.
C5_SidecarWritten ==
    \A i \in 1..Len(log_entries) :
        (pc \in {"delay", "done"} /\ log_entries[i].status = "success") =>
            LET dir == FirmwareDir(log_entries[i].section, log_entries[i].version)
            IN /\ FilePath(dir, PayloadName) \in DOMAIN files
               /\ \E q \in DOMAIN files :
                     /\ q.dir = dir
                     /\ q.name # PayloadName
                     /\ files[q] = <<log_entries[i].md5>>

\* C6: while an entry whose requests all fail is processed (the row is read,
\* the requests and sleeps are made, the None is branched on, the delay is
\* taken) no file is created or written, and the branch records a failure.
C6_FailedEntryWritesNothing ==
    [][/\ (pc \in {"row", "attempt", "sleep", "delay"} \/ (pc = "returned" /\ response = None))
          => files' = files
       /\ (pc = "returned" /\ response = None)
          => log_entries' = Append(log_entries, FailedEntry(Section, Row))]_vars
C6_Witness ==
    /\ pc = "delay" /\ response = None /\ failed = DefaultRetries
    /\ log_entries[Len(log_entries)].status = "failed"
    /\ files = StaleFiles

\* C7: between the requests of one entry and the first request of the next
\* there is exactly one sleep, of the rate-limit length, whether the entry
\* succeeded or failed.
C7_OneDelayBetweenEntries ==
    /\ (pc = "attempt" /\ tries = 0 /\ Len(log_entries) >= 1) => pauses = <<10>>
    /\ (pc \in {"row", "section", "report"} /\ Len(log_entries) >= 1) => pauses = <<10>>
    /\ pc = "delay" => pauses = <<>>
C7_Witness ==
    /\ pc = "attempt" /\ tries = 0 /\ Len(log_entries) = 1
    /\ log_entries[1].status = "failed"

\* C8: over a valid catalog the outcomes follow the data rows section by
\* section in the declared order and in document order within a section,
\* headers left out; the report's total is the number of data rows.
Matches(e, tagged) ==
    /\ e.section = tagged[1]
    /\ e.version = tagged[2].version
    /\ e.url = tagged[2].data_url
    /\ e.md5 = tagged[2].data_copy
C8_CatalogOrder ==
    CatalogValid =>
        /\ Len(log_entries) <= Len(CatalogEntries)
        /\ \A i \in 1..Len(log_entries) : Matches(log_entries[i], CatalogEntries[i])
        /\ pc = "done" =>
              /\ report.total_files = Len(CatalogEntries)
              /\ Len(report.table) = Len(CatalogEntries)
              /\ \A i \in 1..Len(CatalogEntries) :
                    /\ report.table[i].cells[1] = CatalogEntries[i][1]
                    /\ report.table[i].cells[2] = CatalogEntries[i][2].version
                    /\ report.table[i].cells[4] = CatalogEntries[i][2].data_url
C8_Witness ==
    /\ CatalogValid /\ pc = "done" /\ Len(report.table) = 2
    /\ catalog[1] = Span("DECR Firmware")
    /\ report.table[1].cells[1] = "Retail Firmwares"
    /\ report.table[2].cells[1] = "PS3 GEX FW"

\* C9: a second run over the same catalog, the network answering every
\* request as in the first, is not stopped by what the first run left on the
\* storage and writes a report with the same rows and the same statuses.
C9_SameReportOnRerun ==
    run >= 2 =>
        /\ err \in {"none", "OSError"}
        /\ Len(log_entries) <= Len(prev.table)
        /\ \A i \in 1..Len(log_entries) : RenderRow(log_entries[i]) = prev.table[i]
        /\ pc = "done" => report = prev
C9_Witness ==
    /\ run = 2 /\ pc = "done" /\ Len(report.table) = 2
    /\ report.table[1].cells[3] = "success"
    /\ report.table[2].cells[3] = "failed"

\* C10: over a catalog with the four sections and no data row, no request is
\* sent, the script raises nothing of its own, and the report shows total,
\* success and failure 0 and an empty table.
EmptyCatalog == CatalogValid /\ Len(CatalogEntries) = 0
C10_EmptyCatalog ==
    EmptyCatalog =>
        /\ ~requested
        /\ err \in {"none", "OSError"}
        /\ pc = "done" =>
              /\ report.written
              /\ report.total_files = 0
              /\ report.success_count = 0
              /\ report.failure_count = 0
              /\ report.table = <<>>
C10_Witness == EmptyCatalog /\ pc = "done" /\ report.written


\* C11: a failure of the stream of one entry's body does not end the run:
\* the run is never stopped by the exception the stream raises.
C11_StreamFailureContained == ~(pc = "error" /\ err = "ChunkedEncodingError")

\* C12: with no content-length the progress computation raises nothing, and
\* a transfer that gets through has written and counted every chunk and is
\* recorded as a success.
C12_NoContentLength ==
    /\ err # "ZeroDivisionError"
    /\ (pc = "delay" /\ Truthy(response) /\ response.content_length = Absent) =>
          /\ wrote = SumSeq(response.body)
          /\ FileSize(files[firmware_path]) = SumSeq(response.body)
          /\ log_entries[CurrentIndex].status = "success"

\* C13: when the storage fails while a row is being processed (its directory,
\* the opening of its payload file, a write), the row has a failed outcome.
C13_StorageFailureRecorded ==
    (pc = "error" /\ err = "OSError" /\ sec <= Len(sections) /\ rowIdx <= Len(rows)) =>
        /\ Len(log_entries) = CurrentIndex
        /\ log_entries[CurrentIndex].status = "failed"

\* C14: an outcome is appended only by the step that ends the entry's fetch
\* (the stream is consumed, or the last of the retries has failed), and a
\* request is sent only when every earlier row has its outcome and the
\* current one has none.
C14_OneEntryAtATime ==
    [][/\ log_entries' # log_entries =>
             \/ pc = "stream" /\ pending = <<>> /\ ~response.breaks
             \/ pc = "returned" /\ response = None /\ tries = retries /\ failed = tries
       /\ tries' = tries + 1 => Len(log_entries) = CurrentIndex - 1
       /\ Len(log_entries') \in {Len(log_entries), Len(log_entries) + 1}]_vars
C14_Witness ==
    /\ pc = "returned" /\ Truthy(response) /\ tries = 2
    /\ Len(log_entries) = 1 /\ CurrentIndex = 2

\* C15: after a success the payload file holds exactly the chunks received
\* in this transfer, in order, whatever it held before.
C15_PayloadReplaced ==
    (pc = "delay" /\ Truthy(response)) =>
        files[firmware_path] = [i \in 1..Len(response.body) |-> Block("rx", response.body[i])]
C15_Witness ==
    /\ pc = "delay" /\ Truthy(response) /\ Len(response.body) = 2
    /\ firmware_path \in DOMAIN StaleFiles
    /\ FileSize(files[firmware_path]) < FileSize(StaleFiles[firmware_path])

\* C16: the row loop never gets past a row without a required column or
\* attribute: such a row ends the run with an exception, no request is made
\* for it and no outcome is recorded for it or with a missing field.
C16_MalformedRowStopsRun ==
    /\ \A k \in 1..Len(rows) : k < rowIdx => WellFormedRow(rows[k])
    /\ pc \in {"attempt", "sleep", "returned", "stream", "delay"} => WellFormedRow(Row)
    /\ \A i \in 1..Len(log_entries) : log_entries[i].url # <<>> /\ log_entries[i].md5 # <<>>
    /\ err \in {"IndexError", "TypeError"} =>
          /\ pc = "error"
          /\ ~WellFormedRow(Row)
          /\ Len(log_entries) = CurrentIndex - 1
C16_Witness ==
    /\ pc = "error" /\ err = "TypeError" /\ Len(log_entries) = 1
    /\ rowIdx = 2

\* C17: over a well-formed catalog the run stops only with the report
\* written (a storage fault aside): nothing else ends it.
C17_RunEndsWithReport == (CatalogValid /\ pc = "error") => err = "OSError"

\* C18: between entries the two counters add up to the number of outcomes,
\* each counts the outcomes of its status, and the report's total is their sum.
Count(status) == Cardinality({i \in 1..Len(log_entries) : log_entries[i].status = status})
C18_CountersAgree ==
    /\ pc \in {"section", "row", "delay", "report", "done"} =>
          /\ success_count + failure_count = Len(log_entries)
          /\ Count("success") = success_count
          /\ Count("failed") = failure_count
    /\ pc = "done" =>
          /\ report.total_files = report.success_count + report.failure_count
          /\ report.success_count = success_count
          /\ report.failure_count = failure_count
          /\ report.total_files = total_files
C18_Witness == pc = "done" /\ success_count = 1 /\ failure_count = 1

\* C19: for any retries >= 0 download_with_retries sends at most `retries`
\* requests, none after a successful one, sleeps once after each failed
\* request but the last, and returns a response only if its last request got
\* a 2xx answer; with retries = 0 it sends nothing and returns None.
C19_RetryLoop ==
    /\ tries <= retries
    /\ failed < tries => (pc = "returned" /\ failed = tries - 1 /\ response # None)
    /\ pc = "attempt" => sleeps = tries
    /\ pc = "sleep" => (sleeps = tries - 1 /\ tries < retries)
    /\ pc = "returned" =>
          /\ sleeps = IF tries = 0 THEN 0 ELSE tries - 1
          /\ response # None => (failed = tries - 1 /\ response.status = 200 /\ ~response.raised)
          /\ response = None => (failed = tries /\ tries = retries)
C19_Witness ==
    /\ pc = "returned" /\ response # None /\ failed = 2 /\ sleeps = 2 /\ retries = 3

====
